---- MODULE Spec2Model ----
(***************************************************************************)
(* PostComposer: the multi-element text canvas editor.                     *)
(*                                                                         *)
(* Every handler of the component runs to completion as one React event:   *)
(* it reads the state captured by the render that created it (the          *)
(* "closure": textElements, selectedTextId, isEditingText,                 *)
(* localTextContent, currentFontSize), queues its setState calls, and the  *)
(* queued updaters are applied in order before the next event.  One action *)
(* below is one handler with all of its queued updates applied.            *)
(*                                                                         *)
(* Strings are sequences of one-character strings; ids are the decimal     *)
(* strings the code builds ('1' and Date.now().toString()); '' is <<>>     *)
(* for text and "" for ids.  A nullable number is <<>> (null) or <<n>>.    *)
(* Scales are held in units of 1/ScaleOne.                                 *)
(***************************************************************************)
EXTENDS Integers, Sequences, FiniteSets, TLC

VARIABLES textElements, selectedTextId, isEditingText, currentFontSize,
          localTextContent, dragStart, now,
          currentBgIndex, isPosting, inFlight, timers, alert, callbacks,
          ws, sockets, reconnectAttempts, isConnected, reconnectTimers,
          emitted, attemptsSinceOpen, requested,
          nextUrl, loadingMore, loading, refreshing, fetches

\* The state that handlePost and the background button work on:
\* currentBgIndex and isPosting are component state; inFlight holds the
\* payloads of the api.post calls that are awaiting their response, timers
\* counts the pending setTimeout callbacks, alert is the message of the
\* last Alert.alert ("" before the first) and callbacks lists the props
\* (onPost, onClose) invoked so far.
postVars == <<currentBgIndex, isPosting, inFlight, timers, alert, callbacks>>

\* WebSocketService (the singleton websocketService): ws is the socket the
\* field ws refers to (0 for null), sockets maps every socket the service
\* has created to its readyState ("NONE" for a slot that holds no socket),
\* reconnectAttempts and isConnected are the fields of that name,
\* reconnectTimers counts the pending setTimeout callbacks of
\* handleReconnect and emitted is the name of the last event passed to
\* emit ("" before the first).  attemptsSinceOpen is history: the number of
\* reconnects that handleReconnect has scheduled since the last onopen;
\* so is requested: the last call made by the user of the service was
\* connect() and not disconnect().
wsVars == <<ws, sockets, reconnectAttempts, isConnected, reconnectTimers,
            emitted, attemptsSinceOpen, requested>>

\* Feed: nextUrl, loadingMore, loading and refreshing are component state;
\* fetches lists the api.get calls of fetchFeed that are awaiting their
\* response.  The posts and the error text are not tracked.
feedVars == <<nextUrl, loadingMore, loading, refreshing, fetches>>

\* What the composer's handlers leave alone.
serviceVars == <<wsVars, feedVars>>

vars == <<textElements, selectedTextId, isEditingText, currentFontSize,
          localTextContent, dragStart, now,
          currentBgIndex, isPosting, inFlight, timers, alert, callbacks,
          ws, sockets, reconnectAttempts, isConnected, reconnectTimers,
          emitted, attemptsSinceOpen, requested,
          nextUrl, loadingMore, loading, refreshing, fetches>>

(* ------------------------------ bounds -------------------------------- *)

\* The store is not grown beyond this many elements.
MaxElements == 2

\* Date.now() runs from FirstClock to MaxClock.
MaxClock == 3

\* At most this many drags are in progress (tracked in dragStart) at a time.
MaxGestures == 1

\* Pan gestures are not followed further than this to the left or right of
\* the canvas.
MaxCoord == 0

\* The service holds at most this many sockets that have not been closed
\* and collected.
MaxSockets == 2

\* At most this many reconnect timers are pending at a time.
MaxReconnectTimers == 2

\* Reconnects are not counted further than this.
MaxAttemptsSinceOpen == 6

\* At most this many feed requests are awaiting their response at a time.
MaxFetches == 3

(* ------------------------- program constants -------------------------- *)

screenWidth == 400
screenHeight == 800
margin == 100
defaultFontSize == 24
ScaleOne == 100
minFontSize == 8
maxFontSize == 72
sliderHeight == 200
maxReconnectAttempts == 5
FirstClock == 2
minScale == 30
maxScale == 500
maxLength == 500

\* screenWidth / 2, screenHeight * 0.3
anchorX == screenWidth \div 2
anchorY == (screenHeight * 3) \div 10

(* ------------------------------ inputs -------------------------------- *)

Whitespace == {" ", "\n", "\t"}

\* What the keyboard delivers to onChangeText.
Texts == { <<" ">>, <<"h", "i">> }

\* locationX, locationY of a canvas press: inside the margin, and on the
\* starter element.
TapPoints == { <<50, 50>>, <<200, 240>> }

\* The same with a point inside the margin that is away from the anchor.
WideTapPoints == TapPoints \cup { <<200, 500>> }

\* translationX, translationY of an ACTIVE pan frame.
Translations == { <<-75, -95>> }

\* translationY of a slider frame.
SliderTranslations == { 300 }

\* The same with a frame above the top of the slider and one within it.
WideSliderTranslations == SliderTranslations \cup { -100, 100 }

PanStates == { "BEGAN", "ACTIVE", "END", "CANCELLED", "FAILED" }

\* event.nativeEvent.scale of a pinch frame, in units of 1/ScaleOne: fingers
\* brought together to a hundredth, and spread to ten times, of their
\* distance at the start of the gesture.
PinchScales == { 1, 1000 }

(* ------------------------------ strings ------------------------------- *)

RECURSIVE TrimStart(_)
TrimStart(s) ==
  IF s # <<>> /\ Head(s) \in Whitespace THEN TrimStart(Tail(s)) ELSE s

RECURSIVE TrimEnd(_)
TrimEnd(s) ==
  IF s # <<>> /\ s[Len(s)] \in Whitespace
  THEN TrimEnd(SubSeq(s, 1, Len(s) - 1)) ELSE s

\* String.prototype.trim
Trim(s) == TrimEnd(TrimStart(s))

(* --------------------------- element store ---------------------------- *)

Null == <<>>

NewElement(id, px, py) ==
  [ id |-> id, content |-> <<>>, x |-> px, y |-> py,
    originalX |-> Null, originalY |-> Null,
    fontSize |-> defaultFontSize, color |-> "#FF1A1A",
    fontFamily |-> "arial-black", hasBackground |-> FALSE,
    backgroundColor |-> "#FFFFFF", backgroundMode |-> "off",
    capsLock |-> TRUE, scale |-> ScaleOne ]

\* Array.prototype.find: index of the first element that has the id, 0 if none
FindIndex(els, id) ==
  IF \E i \in 1..Len(els) : els[i].id = id
  THEN CHOOSE i \in 1..Len(els) :
         /\ els[i].id = id
         /\ \A j \in 1..(i - 1) : els[j].id # id
  ELSE 0

\* Array.prototype.filter(el => el.id !== id)
RECURSIVE FilterOut(_, _)
FilterOut(els, id) ==
  IF els = <<>> THEN <<>>
  ELSE IF Head(els).id = id THEN FilterOut(Tail(els), id)
       ELSE <<Head(els)>> \o FilterOut(Tail(els), id)

\* { ...el, ...updates }
Merge(el, updates) ==
  [ f \in DOMAIN el |-> IF f \in DOMAIN updates THEN updates[f] ELSE el[f] ]

\* setTextElements(prev => prev.map(el => el.id === id ? {...el, ...updates} : el))
updateTextElement(els, id, updates) ==
  [ i \in 1..Len(els) |->
      IF els[i].id = id THEN Merge(els[i], updates) ELSE els[i] ]

\* textElements.find(el => el.id === selectedTextId) || textElements[0]
getCurrentTextElement ==
  IF FindIndex(textElements, selectedTextId) # 0
  THEN FindIndex(textElements, selectedTextId)
  ELSE IF Len(textElements) > 0 THEN 1 ELSE 0

\* localTextContent[element.id] !== undefined ? localTextContent[element.id] : element.content
getDisplayText(element) ==
  IF element.id \in DOMAIN localTextContent
  THEN localTextContent[element.id]
  ELSE element.content

\* { ...prev, [id]: text }
SetEntry(local, id, text) ==
  [ k \in DOMAIN local \cup {id} |-> IF k = id THEN text ELSE local[k] ]

\* delete newLocal[id]
DeleteEntry(local, id) ==
  [ k \in DOMAIN local \ {id} |-> local[k] ]

EmptyMap == [ k \in {} |-> <<>> ]

(* ------------------------------- state -------------------------------- *)

\* A feed request: fetchFeed(isRefresh, cursor), cursor <<>> when absent.
Fetch(isRefresh, cursor) == [ isRefresh |-> isRefresh, cursor |-> cursor ]

\* The service as constructed, and the feed after its first render and its
\* mount effect, which calls fetchFeed().
InitService ==
  /\ ws = 0
  /\ sockets = [ s \in 1..MaxSockets |-> "NONE" ]
  /\ reconnectAttempts = 0
  /\ isConnected = FALSE
  /\ reconnectTimers = 0
  /\ emitted = ""
  /\ attemptsSinceOpen = 0
  /\ requested = FALSE
  /\ nextUrl = Null
  /\ loadingMore = FALSE
  /\ loading = TRUE
  /\ refreshing = FALSE
  /\ fetches = << Fetch(FALSE, Null) >>

Init ==
  /\ InitService
  /\ textElements = << NewElement("1", anchorX, anchorY) >>
  /\ selectedTextId = "1"
  /\ isEditingText = FALSE
  /\ currentFontSize = defaultFontSize
  /\ localTextContent = EmptyMap
  /\ dragStart = EmptyMap
  /\ now = FirstClock
  /\ currentBgIndex = 0
  /\ isPosting = FALSE
  /\ inFlight = <<>>
  /\ timers = 0
  /\ alert = ""
  /\ callbacks = <<>>

\* isOffScreen with the comparisons against the near edges turned around.
isOffScreen_Flipped(element) ==
  \/ element.x > margin
  \/ element.x > screenWidth - margin
  \/ element.y > margin
  \/ element.y > screenHeight - margin

\* element.x < margin || element.x > screenWidth - margin || ...
isOffScreen(element) ==
  \/ element.x < margin
  \/ element.x > screenWidth - margin
  \/ element.y < margin
  \/ element.y > screenHeight - margin

\* The element found in the captured textElements is mutated in place, so
\* the mutation is part of the store every later updater and render sees.
moveTextIntoViewForEditing(els, id) ==
  LET i == FindIndex(els, id) IN
    IF i = 0 THEN els
    ELSE LET element == els[i]
             recorded == Merge(element, [ originalX |-> <<element.x>>,
                                          originalY |-> <<element.y>> ])
         IN [ els EXCEPT ![i] =
                IF isOffScreen(element)
                THEN Merge(recorded, [ x |-> anchorX, y |-> anchorY ])
                ELSE recorded ]

\* startEditingText(id), called with `pending` the elements that an updater
\* queued earlier in the same event appends.  textElements.find reads the
\* captured array, which does not contain them.
startEditingText(id, pending) ==
  /\ selectedTextId' = id
  /\ isEditingText' = TRUE
  /\ textElements' = moveTextIntoViewForEditing(textElements, id) \o pending
  /\ LET i == FindIndex(textElements, id) IN
       IF i # 0
       THEN /\ localTextContent' =
                 SetEntry(localTextContent, id, textElements[i].content)
            /\ currentFontSize' = textElements[i].fontSize
       ELSE UNCHANGED <<localTextContent, currentFontSize>>

\* Object.entries(localTextContent).forEach(([id, content]) =>
\*   updateTextElement(id, { content, fontSize: currentFontSize }))
\* The entries have distinct ids, so the order of the updaters is immaterial.
RECURSIVE CommitEntries(_, _, _, _)
CommitEntries(els, local, ids, size) ==
  IF ids = {} THEN els
  ELSE LET id == CHOOSE k \in ids : TRUE IN
         CommitEntries(
           updateTextElement(els, id,
                             [ content |-> local[id], fontSize |-> size ]),
           local, ids \ {id}, size)

\* stopEditingText committing the text without the font size.
stopEditingText_ContentOnly(els) ==
  /\ textElements' =
       [ i \in 1..Len(els) |->
           IF els[i].id \in DOMAIN localTextContent
           THEN Merge(els[i], [ content |-> localTextContent[els[i].id] ])
           ELSE els[i] ]
  /\ isEditingText' = FALSE
  /\ localTextContent' = EmptyMap

\* stopEditingText putting every element back at its recorded original
\* position.
stopEditingText_Restore(els) ==
  /\ textElements' =
       [ i \in 1..Len(els) |->
           LET el == CommitEntries(els, localTextContent,
                                   DOMAIN localTextContent, currentFontSize)[i]
           IN IF el.originalX # Null
              THEN Merge(el, [ x |-> el.originalX[1], y |-> el.originalY[1] ])
              ELSE el ]
  /\ isEditingText' = FALSE
  /\ localTextContent' = EmptyMap

\* stopEditingText dropping the buffer without committing it.
stopEditingText_Discard(els) ==
  /\ textElements' = els
  /\ isEditingText' = FALSE
  /\ localTextContent' = EmptyMap

\* stopEditingText(), applied to the store `els` left by the updaters queued
\* before it; localTextContent and currentFontSize are the captured values.
stopEditingText(els) ==
  /\ textElements' =
       CommitEntries(els, localTextContent, DOMAIN localTextContent,
                     currentFontSize)
  /\ isEditingText' = FALSE
  /\ localTextContent' = EmptyMap

\* textElements.find over the hit boxes; 0 if no element is hit
HitBox(element, px, py) ==
  LET elementX == element.x - 100
      elementY == element.y - 25
      isFirstElement == element.id = "1"
      elementWidth == IF isFirstElement THEN 300 ELSE 200
      elementHeight == IF isFirstElement THEN 80 ELSE 50
  IN /\ px >= elementX
     /\ px <= elementX + elementWidth
     /\ py >= elementY
     /\ py <= elementY + elementHeight

\* findElementAtPosition returning the last element that is hit.
findElementAtPosition_Last(px, py) ==
  IF \E i \in 1..Len(textElements) : HitBox(textElements[i], px, py)
  THEN CHOOSE i \in 1..Len(textElements) :
         /\ HitBox(textElements[i], px, py)
         /\ \A j \in (i + 1)..Len(textElements) :
              ~HitBox(textElements[j], px, py)
  ELSE 0

findElementAtPosition(px, py) ==
  IF \E i \in 1..Len(textElements) : HitBox(textElements[i], px, py)
  THEN CHOOSE i \in 1..Len(textElements) :
         /\ HitBox(textElements[i], px, py)
         /\ \A j \in 1..(i - 1) : ~HitBox(textElements[j], px, py)
  ELSE 0

\* ExitEditing testing the committed content instead of what was typed.
ExitEditing_StateContent ==
  LET c == getCurrentTextElement
      blank == c # 0 /\ Trim(textElements[c].content) = <<>>
  IN /\ selectedTextId' = IF blank THEN "" ELSE selectedTextId
     /\ stopEditingText(IF blank
                        THEN FilterOut(textElements, textElements[c].id)
                        ELSE textElements)
     /\ UNCHANGED <<currentFontSize, dragStart, now>>

\* The branch of handleCanvasTap taken while editing.
ExitEditing ==
  LET c == getCurrentTextElement
      blank == c # 0 /\ Trim(getDisplayText(textElements[c])) = <<>>
  IN /\ selectedTextId' = IF blank THEN "" ELSE selectedTextId
     /\ stopEditingText(IF blank
                        THEN FilterOut(textElements, textElements[c].id)
                        ELSE textElements)
     /\ UNCHANGED <<currentFontSize, dragStart, now>>

\* handleCanvasTap running the hit test before the exit from editing.
handleCanvasTap_HitFirst(p) ==
  LET t == findElementAtPosition(p[1], p[2])
      newId == ToString(now)
  IN IF t # 0
     THEN /\ startEditingText(textElements[t].id, <<>>)
          /\ UNCHANGED <<dragStart, now>>
     ELSE IF isEditingText THEN ExitEditing
     ELSE /\ Len(textElements) < MaxElements
          /\ startEditingText(newId, << NewElement(newId, p[1], p[2]) >>)
          /\ UNCHANGED <<dragStart, now>>

handleCanvasTap(p) ==
  IF isEditingText THEN ExitEditing
  ELSE LET t == findElementAtPosition(p[1], p[2])
           newId == ToString(now)
       IN IF t # 0
          THEN /\ startEditingText(textElements[t].id, <<>>)
               /\ UNCHANGED <<dragStart, now>>
          ELSE /\ Len(textElements) < MaxElements
               /\ startEditingText(newId, << NewElement(newId, p[1], p[2]) >>)
               /\ UNCHANGED <<dragStart, now>>

\* The Text button of the top menu.
createNewTextElement ==
  LET newId == ToString(now) IN
    /\ Len(textElements) < MaxElements
    /\ startEditingText(newId, << NewElement(newId, anchorX, anchorY) >>)
    /\ UNCHANGED <<dragStart, now>>

\* An element is drawn as a TextInput when it is the one being edited and
\* as a TouchableOpacity (onPress, onLongPress) otherwise.
IsTextInput(element) == isEditingText /\ selectedTextId = element.id

\* TouchableOpacity onPress={() => startEditingText(element.id)}
onPress(i) ==
  /\ i \in 1..Len(textElements)
  /\ ~IsTextInput(textElements[i])
  /\ startEditingText(textElements[i].id, <<>>)
  /\ UNCHANGED <<dragStart, now>>

\* deleteTextElement without the test of textElements.length.
deleteTextElement_NoFloor(id) ==
  /\ textElements' = FilterOut(textElements, id)
  /\ selectedTextId' =
       IF selectedTextId = id
       THEN IF \E j \in 1..Len(textElements) : textElements[j].id # id
            THEN textElements[CHOOSE j \in 1..Len(textElements) :
                   /\ textElements[j].id # id
                   /\ \A k \in 1..(j - 1) : textElements[k].id = id].id
            ELSE ""
       ELSE selectedTextId

\* deleteTextElement without the move of the selection.
deleteTextElement_KeepSelection(id) ==
  IF Len(textElements) > 1
  THEN /\ textElements' = FilterOut(textElements, id)
       /\ UNCHANGED selectedTextId
  ELSE UNCHANGED <<textElements, selectedTextId>>

deleteTextElement(id) ==
  IF Len(textElements) > 1
  THEN /\ textElements' = FilterOut(textElements, id)
       /\ selectedTextId' =
            IF selectedTextId = id
            THEN IF \E j \in 1..Len(textElements) : textElements[j].id # id
                 THEN textElements[CHOOSE j \in 1..Len(textElements) :
                        /\ textElements[j].id # id
                        /\ \A k \in 1..(j - 1) : textElements[k].id = id].id
                 ELSE ""
            ELSE selectedTextId
  ELSE UNCHANGED <<textElements, selectedTextId>>

\* TouchableOpacity onLongPress={() => deleteTextElement(element.id)}
onLongPress(i) ==
  /\ i \in 1..Len(textElements)
  /\ ~IsTextInput(textElements[i])
  /\ deleteTextElement(textElements[i].id)
  /\ UNCHANGED <<isEditingText, currentFontSize, localTextContent,
                 dragStart, now>>

\* handleTextInputChange writing every keystroke into the store as well.
handleTextInputChange_Store(id, text) ==
  /\ \E i \in 1..Len(textElements) :
       textElements[i].id = id /\ isEditingText /\ selectedTextId = id
  /\ localTextContent' = SetEntry(localTextContent, id, text)
  /\ textElements' = updateTextElement(textElements, id, [ content |-> text ])
  /\ UNCHANGED <<selectedTextId, isEditingText, currentFontSize,
                 dragStart, now>>

\* TextInput onChangeText={(text) => handleTextInputChange(element.id, text)}
handleTextInputChange(id, text) ==
  /\ \E i \in 1..Len(textElements) :
       textElements[i].id = id /\ IsTextInput(textElements[i])
  /\ localTextContent' = SetEntry(localTextContent, id, text)
  /\ UNCHANGED <<textElements, selectedTextId, isEditingText,
                 currentFontSize, dragStart, now>>

Max(a, b) == IF a > b THEN a ELSE b
Min(a, b) == IF a < b THEN a ELSE b

\* The slider's formula without Math.max and Math.min.
SliderFontSize_Unclamped(translationY) ==
  minFontSize
    + ((sliderHeight - translationY) * (maxFontSize - minFontSize))
        \div sliderHeight

\* minFontSize + Math.max(0, Math.min(1, 1 - translationY / sliderHeight))
\*             * (maxFontSize - minFontSize)
SliderFontSize(translationY) ==
  minFontSize
    + (Max(0, Min(sliderHeight, sliderHeight - translationY))
         * (maxFontSize - minFontSize)) \div sliderHeight

\* onGestureEvent of the slider, which is drawn only while editing.
sliderGesture(translationY) ==
  /\ isEditingText
  /\ currentFontSize' = SliderFontSize(translationY)
  /\ UNCHANGED <<textElements, selectedTextId, isEditingText,
                 localTextContent, dragStart, now>>

handlePanStateChange(state, elementId) ==
  /\ \E i \in 1..Len(textElements) : textElements[i].id = elementId
  /\ state = "BEGAN" =>
       Cardinality(DOMAIN dragStart \ {elementId}) < MaxGestures
  /\ LET el == FindIndex(textElements, elementId)
         began == IF state = "BEGAN" /\ el # 0
                  THEN SetEntry(dragStart, elementId,
                                <<textElements[el].x, textElements[el].y>>)
                  ELSE dragStart
     IN dragStart' = IF state \in {"END", "CANCELLED", "FAILED"}
                     THEN DeleteEntry(began, elementId)
                     ELSE began
  /\ UNCHANGED <<textElements, selectedTextId, isEditingText,
                 currentFontSize, localTextContent, now>>

handlePanGesture(state, t, elementId) ==
  /\ \E i \in 1..Len(textElements) : textElements[i].id = elementId
  /\ IF state # "ACTIVE" \/ isEditingText \/ elementId \notin DOMAIN dragStart
     THEN UNCHANGED textElements
     ELSE LET newX == dragStart[elementId][1] + t[1]
              newY == dragStart[elementId][2] + t[2]
          IN /\ newX \in (-MaxCoord)..(screenWidth + MaxCoord)
             /\ textElements' = updateTextElement(textElements, elementId,
                                                  [ x |-> newX, y |-> newY ])
  /\ UNCHANGED <<selectedTextId, isEditingText, currentFontSize,
                 localTextContent, dragStart, now>>

\* handlePinchGesture storing the product without the clamp.
handlePinchGesture_Unclamped(state, scale, elementId) ==
  /\ \E i \in 1..Len(textElements) : textElements[i].id = elementId
  /\ LET el == FindIndex(textElements, elementId) IN
       IF state = "ACTIVE" /\ el # 0 /\ ~isEditingText
       THEN textElements' =
              updateTextElement(textElements, elementId,
                [ scale |-> (textElements[el].scale * scale) \div ScaleOne ])
       ELSE UNCHANGED textElements
  /\ UNCHANGED <<selectedTextId, isEditingText, currentFontSize,
                 localTextContent, dragStart, now>>

\* handlePinchGesture without the test of isEditingText.
handlePinchGesture_WhileEditing(state, scale, elementId) ==
  /\ \E i \in 1..Len(textElements) : textElements[i].id = elementId
  /\ LET el == FindIndex(textElements, elementId) IN
       IF state = "ACTIVE" /\ el # 0
       THEN textElements' =
              updateTextElement(textElements, elementId,
                [ scale |-> Max(minScale, Min(maxScale,
                     (textElements[el].scale * scale) \div ScaleOne)) ])
       ELSE UNCHANGED textElements
  /\ UNCHANGED <<selectedTextId, isEditingText, currentFontSize,
                 localTextContent, dragStart, now>>

\* Math.max(0.3, Math.min(5.0, element.scale * event.nativeEvent.scale))
handlePinchGesture(state, scale, elementId) ==
  /\ \E i \in 1..Len(textElements) : textElements[i].id = elementId
  /\ LET el == FindIndex(textElements, elementId) IN
       IF state = "ACTIVE" /\ el # 0 /\ ~isEditingText
       THEN textElements' =
              updateTextElement(textElements, elementId,
                [ scale |-> Max(minScale, Min(maxScale,
                     (textElements[el].scale * scale) \div ScaleOne)) ])
       ELSE UNCHANGED textElements
  /\ UNCHANGED <<selectedTextId, isEditingText, currentFontSize,
                 localTextContent, dragStart, now>>

(* ----------------------------- submission ----------------------------- *)

backgroundOptions ==
  << "#F8F8FF", "#1B1B1B", "#FF1A1A", "#4A90E2", "#7B68EE", "#FF6B6B",
     "#4ECDC4" >>

\* The backgroundColor state, which cycleBackgroundColor keeps equal to
\* backgroundOptions[currentBgIndex].
backgroundColor == backgroundOptions[currentBgIndex + 1]

\* The background button of the top menu.
cycleBackgroundColor ==
  /\ currentBgIndex' = (currentBgIndex + 1) % Len(backgroundOptions)
  /\ UNCHANGED <<textElements, selectedTextId, isEditingText, currentFontSize,
                 localTextContent, dragStart, now,
                 isPosting, inFlight, timers, alert, callbacks, serviceVars>>

\* The button of the control bar that steps the background mode of the
\* current element; the bar is drawn while editing.
cycleBackgroundMode ==
  /\ isEditingText
  /\ LET c == getCurrentTextElement IN
       IF c # 0
       THEN textElements' =
              updateTextElement(textElements, textElements[c].id,
                [ backgroundMode |->
                    IF textElements[c].backgroundMode = "off" THEN "white"
                    ELSE IF textElements[c].backgroundMode = "white"
                         THEN "inverted" ELSE "off" ])
       ELSE UNCHANGED textElements
  /\ UNCHANGED <<selectedTextId, isEditingText, currentFontSize,
                 localTextContent, dragStart, now>>
  /\ UNCHANGED <<postVars, serviceVars>>

\* Math.round of the quotient n / d of two positive integers
Round_Down(n, d) == n \div d

Round(n, d) == (2 * n + d) \div (2 * d)

\* textElements.map(el => ({ ...el, content: localTextContent[el.id] !==
\*   undefined ? localTextContent[el.id] : el.content }))
currentElements ==
  [ i \in 1..Len(textElements) |->
      Merge(textElements[i], [ content |-> getDisplayText(textElements[i]) ]) ]

\* els.filter(el => el.content.trim()).map(el => el.content).join(' ')
RECURSIVE JoinContents(_)
JoinContents(els) ==
  IF els = <<>> THEN <<>>
  ELSE LET rest == JoinContents(Tail(els)) IN
         IF Trim(Head(els).content) = <<>> THEN rest
         ELSE IF \A i \in 1..Len(Tail(els)) : Trim(Tail(els)[i].content) = <<>>
              THEN Head(els).content
              ELSE Head(els).content \o <<" ">> \o rest

\* One entry of text_elements.
ExportElement(el) ==
  [ content |-> el.content, x |-> el.x, y |-> el.y,
    fontSize |-> Round(el.fontSize * el.scale, ScaleOne),
    color |-> el.color, fontFamily |-> el.fontFamily,
    hasBackground |-> el.hasBackground,
    backgroundColor |-> el.backgroundColor ]

\* postData with the legacy fields taken from the last element.
postData_Last(els, allText) ==
  [ text_content |-> allText,
    text_elements |-> [ i \in 1..Len(els) |-> ExportElement(els[i]) ],
    font_choice |-> IF els # <<>> THEN els[Len(els)].fontFamily
                    ELSE "arial-black",
    font_size |-> IF els # <<>>
                  THEN Round(els[Len(els)].fontSize * els[Len(els)].scale,
                             ScaleOne)
                  ELSE defaultFontSize,
    text_color |-> IF els # <<>> THEN els[Len(els)].color ELSE "#FF1A1A",
    background_color |-> backgroundColor,
    has_text_background |-> els # <<>> /\ els[1].hasBackground,
    text_background_color |->
      IF els # <<>> /\ els[1].hasBackground
      THEN <<els[1].backgroundColor>> ELSE Null,
    canvas_width |-> screenWidth,
    canvas_height |-> screenHeight ]

\* postData; x || y on values that are never falsy is x, and
\* currentElements[0]?.f is undefined for an empty array.
postData(els, allText) ==
  [ text_content |-> allText,
    text_elements |-> [ i \in 1..Len(els) |-> ExportElement(els[i]) ],
    font_choice |-> IF els # <<>> THEN els[1].fontFamily ELSE "arial-black",
    font_size |-> IF els # <<>>
                  THEN Round(els[1].fontSize * els[1].scale, ScaleOne)
                  ELSE defaultFontSize,
    text_color |-> IF els # <<>> THEN els[1].color ELSE "#FF1A1A",
    background_color |-> backgroundColor,
    has_text_background |-> els # <<>> /\ els[1].hasBackground,
    text_background_color |->
      IF els # <<>> /\ els[1].hasBackground
      THEN <<els[1].backgroundColor>> ELSE Null,
    canvas_width |-> screenWidth,
    canvas_height |-> screenHeight ]

\* Object.entries(localTextContent).forEach(([id, content]) =>
\*   updateTextElement(id, { content }))
CommitContent(els) ==
  [ i \in 1..Len(els) |->
      IF els[i].id \in DOMAIN localTextContent
      THEN Merge(els[i], [ content |-> localTextContent[els[i].id] ])
      ELSE els[i] ]

EmptyContent == "Please add some text before posting"
TooLong == "Text must be under 500 characters"
NetworkError == "Failed to create post"

\* allText
allText == JoinContents(currentElements)

\* A press of the Post button, which is drawn when not editing: handlePost
\* up to its await, with the button's disabled prop and the outcomes of
\* the two validation tests.
Submit(disabled, empty, long) ==
  /\ ~isEditingText
  /\ ~disabled
  /\ textElements' = CommitContent(textElements)
  /\ IF empty
     THEN /\ alert' = EmptyContent
          /\ UNCHANGED <<isPosting, inFlight>>
     ELSE IF long
     THEN /\ alert' = TooLong
          /\ UNCHANGED <<isPosting, inFlight>>
     ELSE /\ isPosting' = TRUE
          /\ inFlight' = Append(inFlight, postData(currentElements, allText))
          /\ UNCHANGED alert
  /\ UNCHANGED <<selectedTextId, isEditingText, currentFontSize,
                 localTextContent, dragStart, now,
                 currentBgIndex, timers, callbacks>>

\* handlePost without the test for empty text.
\* handlePost with setIsPosting(true) moved before the validation.
handlePost_BusyFirst ==
  /\ ~isEditingText
  /\ ~isPosting
  /\ textElements' = CommitContent(textElements)
  /\ isPosting' = TRUE
  /\ IF Trim(allText) = <<>>
     THEN alert' = EmptyContent /\ UNCHANGED inFlight
     ELSE IF Len(allText) > maxLength
     THEN alert' = TooLong /\ UNCHANGED inFlight
     ELSE /\ inFlight' = Append(inFlight, postData(currentElements, allText))
          /\ UNCHANGED alert
  /\ UNCHANGED <<selectedTextId, isEditingText, currentFontSize,
                 localTextContent, dragStart, now, currentBgIndex, timers,
                 callbacks>>

handlePost_NoEmptyCheck ==
  Submit(isPosting, FALSE, Len(allText) > maxLength)

\* handlePost rejecting a text of maxLength characters.
handlePost_AtLeast ==
  Submit(isPosting, Trim(allText) = <<>>, Len(allText) >= maxLength)

\* handlePost behind a button that is never disabled.
handlePost_Reentrant ==
  Submit(FALSE, Trim(allText) = <<>>, Len(allText) > maxLength)

\* if (!allText.trim()) ...; if (allText.length > maxLength) ...;
\* behind disabled={isPosting}
handlePost ==
  Submit(isPosting, Trim(allText) = <<>>, Len(allText) > maxLength)

\* The success branch clearing the composition.
postResolved_Reset ==
  /\ inFlight # <<>>
  /\ inFlight' = Tail(inFlight)
  /\ timers' = timers + 1
  /\ textElements' = <<>>
  /\ selectedTextId' = ""
  /\ UNCHANGED <<isEditingText, currentFontSize,
                 localTextContent, dragStart, now,
                 currentBgIndex, isPosting, alert, callbacks>>

\* api.post resolves: handlePost from its await to the setTimeout.
postResolved ==
  /\ inFlight # <<>>
  /\ inFlight' = Tail(inFlight)
  /\ timers' = timers + 1
  /\ UNCHANGED <<textElements, selectedTextId, isEditingText, currentFontSize,
                 localTextContent, dragStart, now,
                 currentBgIndex, isPosting, alert, callbacks>>

\* The catch block without setIsPosting(false).
postRejected_StayBusy ==
  /\ inFlight # <<>>
  /\ inFlight' = Tail(inFlight)
  /\ alert' = NetworkError
  /\ UNCHANGED <<textElements, selectedTextId, isEditingText, currentFontSize,
                 localTextContent, dragStart, now,
                 currentBgIndex, isPosting, timers, callbacks>>

\* api.post rejects: the catch block of handlePost.
postRejected ==
  /\ inFlight # <<>>
  /\ inFlight' = Tail(inFlight)
  /\ alert' = NetworkError
  /\ isPosting' = FALSE
  /\ UNCHANGED <<textElements, selectedTextId, isEditingText, currentFontSize,
                 localTextContent, dragStart, now,
                 currentBgIndex, timers, callbacks>>

\* The delayed callback calling onPost only.
postTimeout_OnPostOnly ==
  /\ timers > 0
  /\ timers' = timers - 1
  /\ callbacks' = callbacks \o << "onPost" >>
  /\ UNCHANGED <<textElements, selectedTextId, isEditingText, currentFontSize,
                 localTextContent, dragStart, now,
                 currentBgIndex, isPosting, inFlight, alert>>

\* The callback of setTimeout(..., 300).
postTimeout ==
  /\ timers > 0
  /\ timers' = timers - 1
  /\ callbacks' = callbacks \o << "onPost", "onClose" >>
  /\ UNCHANGED <<textElements, selectedTextId, isEditingText, currentFontSize,
                 localTextContent, dragStart, now,
                 currentBgIndex, isPosting, inFlight, alert>>

ElementIds == { textElements[i].id : i \in 1..Len(textElements) }

\* Date.now() advances between events.
Tick ==
  /\ now < MaxClock
  /\ now' = now + 1
  /\ UNCHANGED <<textElements, selectedTextId, isEditingText, currentFontSize,
                 localTextContent, dragStart>>

\* The handlers of taps, presses, the keyboard and the slider.
EditStepOn(taps, slides) ==
  /\ \/ Tick
     \/ \E p \in taps : handleCanvasTap(p)
     \/ createNewTextElement
     \/ \E i \in 1..MaxElements : onPress(i)
     \/ \E i \in 1..MaxElements : onLongPress(i)
     \/ \E text \in Texts : handleTextInputChange(selectedTextId, text)
     \/ \E ty \in slides : sliderGesture(ty)
  /\ UNCHANGED <<postVars, serviceVars>>

EditStep(taps) == EditStepOn(taps, SliderTranslations)

\* The handlers of the per-element gesture recognizers.
GestureStep ==
  /\ \/ \E state \in PanStates, id \in ElementIds :
          handlePanStateChange(state, id)
     \/ \E state \in PanStates, t \in Translations, id \in ElementIds :
          handlePanGesture(state, t, id)
  /\ UNCHANGED <<postVars, serviceVars>>

Next == EditStep(TapPoints) \/ GestureStep

\* The editor with the pan recognizer and without the pinch recognizer.
Spec == Init /\ [][Next]_vars

\* The editor driven by taps, presses, keyboard and slider only: no gesture
\* recognizer delivers an event.
NextEdit == EditStep(WideTapPoints)

SpecEdit == Init /\ [][NextEdit]_vars

\* The same editor with slider frames over the whole length of the slider
\* and beyond it.
NextSlider == EditStepOn(TapPoints, WideSliderTranslations)

SpecSlider == Init /\ [][NextSlider]_vars

\* The handler of the per-element pinch recognizer.
PinchStep ==
  /\ \E state \in PanStates, scale \in PinchScales, id \in ElementIds :
       handlePinchGesture(state, scale, id)
  /\ UNCHANGED <<postVars, serviceVars>>

\* The editor with the pinch recognizer and without the pan recognizer.
NextPinch == EditStep(TapPoints) \/ PinchStep

SpecPinch == Init /\ [][NextPinch]_vars

\* The handlers that enter and leave editing and that add and remove
\* elements.
TapStep ==
  /\ \/ \E p \in TapPoints : handleCanvasTap(p)
     \/ createNewTextElement
     \/ \E i \in 1..MaxElements : onPress(i)
     \/ \E i \in 1..MaxElements : onLongPress(i)
  /\ UNCHANGED <<postVars, serviceVars>>

\* The editor with both recognizers, in which nothing is typed, the slider
\* is not moved and all of it happens within one value of Date.now().
NextGesture == TapStep \/ GestureStep \/ PinchStep

SpecGesture == Init /\ [][NextGesture]_vars

\* handlePost and the continuations of its await.
PostStep ==
  /\ \/ handlePost
     \/ postResolved
     \/ postRejected
     \/ postTimeout
  /\ UNCHANGED serviceVars

\* Canvas taps and the keyboard: entering and leaving editing, creating
\* elements, typing.
TypeStep ==
  /\ \/ \E p \in TapPoints : handleCanvasTap(p)
     \/ \E text \in Texts : handleTextInputChange(selectedTextId, text)
  /\ UNCHANGED <<postVars, serviceVars>>

\* Composing with canvas taps, the keyboard and the two background
\* buttons, and submitting with the Post button; the server answers each
\* request with a response or an error.
NextPost ==
  \/ TypeStep
  \/ cycleBackgroundMode
  \/ cycleBackgroundColor
  \/ PostStep

SpecPost == Init /\ [][NextPost]_vars

\* A timer set with setTimeout fires: the event loop runs a due callback.
SpecPostFair ==
  SpecPost /\ WF_vars(postTimeout /\ UNCHANGED serviceVars)

\* A string of n characters.
Rep(n) == [ i \in 1..n |-> "a" ]

\* What editing leaves in an element: a committed content (empty, blank,
\* text, text with blanks around it, and texts that make aggregates of
\* maxLength and maxLength + 1 characters alone and in pairs) with what the
\* slider, the pinch recognizer and the font, colour and background
\* buttons have set.
PostElements ==
  { [ content |-> <<>>, fontSize |-> 24, scale |-> ScaleOne,
      color |-> "#FF1A1A", fontFamily |-> "arial-black",
      backgroundMode |-> "off" ],
    [ content |-> <<" ">>, fontSize |-> 10, scale |-> minScale,
      color |-> "#0000EE", fontFamily |-> "impact",
      backgroundMode |-> "white" ],
    [ content |-> <<"h", "i">>, fontSize |-> 24, scale |-> 2 * ScaleOne,
      color |-> "#FF1A1A", fontFamily |-> "arial-black",
      backgroundMode |-> "off" ],
    [ content |-> <<" ", "h", "i", " ">>, fontSize |-> 25, scale |-> minScale,
      color |-> "#000000", fontFamily |-> "papyrus",
      backgroundMode |-> "inverted" ],
    [ content |-> Rep(maxLength \div 2 - 1), fontSize |-> 24,
      scale |-> ScaleOne, color |-> "#FF1A1A", fontFamily |-> "arial-black",
      backgroundMode |-> "off" ],
    [ content |-> Rep(maxLength \div 2), fontSize |-> 10, scale |-> minScale,
      color |-> "#0000EE", fontFamily |-> "impact",
      backgroundMode |-> "white" ],
    [ content |-> Rep(maxLength), fontSize |-> 24, scale |-> 2 * ScaleOne,
      color |-> "#FF1A1A", fontFamily |-> "crimson-text",
      backgroundMode |-> "inverted" ],
    [ content |-> Rep(maxLength + 1), fontSize |-> 25, scale |-> minScale,
      color |-> "#000000", fontFamily |-> "papyrus",
      backgroundMode |-> "off" ] }

\* The stores of up to MaxElements elements, in creation order.
PostStores ==
  UNION { { [ i \in 1..n |->
                Merge(NewElement(ToString(i), anchorX, anchorY), f[i]) ] :
            f \in [ 1..n -> PostElements ] } :
          n \in 0..MaxElements }

\* Viewing, with a store left by earlier editing.
InitSerialize ==
  /\ InitService
  /\ textElements \in PostStores
  /\ selectedTextId = ""
  /\ isEditingText = FALSE
  /\ currentFontSize = defaultFontSize
  /\ localTextContent = EmptyMap
  /\ dragStart = EmptyMap
  /\ now = FirstClock
  /\ currentBgIndex = 0
  /\ isPosting = FALSE
  /\ inFlight = <<>>
  /\ timers = 0
  /\ alert = ""
  /\ callbacks = <<>>

\* Submission of a composition, nothing else happening.
SpecSerialize == InitSerialize /\ [][PostStep]_vars

(* -------------------------- WebSocketService -------------------------- *)

\* What the service's methods and socket handlers leave alone.
composerVars ==
  <<textElements, selectedTextId, isEditingText, currentFontSize,
    localTextContent, dragStart, now, postVars>>

\* A socket that is closed and that the field ws no longer refers to can
\* deliver no event and is dropped.
Collect(socks, ref) ==
  [ s \in DOMAIN socks |->
      IF socks[s] = "CLOSED" /\ s # ref THEN "NONE" ELSE socks[s] ]

\* handleReconnect(), called with tm timers pending and ev the last event
\* emitted.
handleReconnect(tm, ev) ==
  IF reconnectAttempts < maxReconnectAttempts
  THEN /\ reconnectAttempts' = reconnectAttempts + 1
       /\ reconnectTimers' = tm + 1
       /\ attemptsSinceOpen' = attemptsSinceOpen + 1
       /\ emitted' = ev
  ELSE /\ emitted' = "max_reconnects_reached"
       /\ reconnectTimers' = tm
       /\ UNCHANGED <<reconnectAttempts, attemptsSinceOpen>>

\* The guard that keeps the timers and the count of reconnects bounded.
CanSchedule(tm) ==
  /\ tm < MaxReconnectTimers
  /\ attemptsSinceOpen < MaxAttemptsSinceOpen

\* The body of connect(), run with tm timers pending; throws says whether
\* new WebSocket(url) throws.
connectBody(tm, throws) ==
  IF throws
  THEN /\ reconnectAttempts < maxReconnectAttempts => CanSchedule(tm)
       /\ handleReconnect(tm, emitted)
       /\ UNCHANGED <<ws, sockets, isConnected>>
  ELSE /\ \E s \in 1..MaxSockets : Collect(sockets, 0)[s] = "NONE"
       /\ LET free == { s \in 1..MaxSockets : Collect(sockets, 0)[s] = "NONE" }
              new == CHOOSE s \in free : \A r \in free : s <= r
          IN /\ ws' = new
             /\ sockets' = [ Collect(sockets, 0) EXCEPT ![new] = "CONNECTING" ]
       /\ reconnectTimers' = tm
       /\ UNCHANGED <<reconnectAttempts, isConnected, emitted,
                      attemptsSinceOpen>>

\* connect(), called by the user of the service.
connect ==
  /\ \E throws \in BOOLEAN : connectBody(reconnectTimers, throws)
  /\ requested' = TRUE
  /\ UNCHANGED <<composerVars, feedVars>>

\* The callback of the setTimeout of handleReconnect: this.connect().
reconnectTimer ==
  /\ reconnectTimers > 0
  /\ \E throws \in BOOLEAN : connectBody(reconnectTimers - 1, throws)
  /\ UNCHANGED requested
  /\ UNCHANGED <<composerVars, feedVars>>

\* disconnect(), called by the user of the service.  ws.close() starts the
\* closing handshake of a socket that is connecting or open; its onclose
\* handler stays attached.
disconnect ==
  /\ IF ws # 0
     THEN sockets' =
            Collect([ sockets EXCEPT
                        ![ws] = IF @ \in {"CONNECTING", "OPEN"}
                                THEN "CLOSING" ELSE @ ], 0)
     ELSE UNCHANGED sockets
  /\ ws' = 0
  /\ isConnected' = FALSE
  /\ reconnectAttempts' = 0
  /\ requested' = FALSE
  /\ UNCHANGED <<reconnectTimers, emitted, attemptsSinceOpen>>
  /\ UNCHANGED <<composerVars, feedVars>>

\* ws.onopen of socket s.
onopen(s) ==
  /\ sockets[s] = "CONNECTING"
  /\ sockets' = [ sockets EXCEPT ![s] = "OPEN" ]
  /\ isConnected' = TRUE
  /\ reconnectAttempts' = 0
  /\ attemptsSinceOpen' = 0
  /\ emitted' = "connected"
  /\ UNCHANGED <<ws, reconnectTimers, requested>>
  /\ UNCHANGED <<composerVars, feedVars>>

\* ws.onclose of socket s: the connection failed, dropped, or was closed.
onclose(s) ==
  /\ sockets[s] \in {"CONNECTING", "OPEN", "CLOSING"}
  /\ reconnectAttempts < maxReconnectAttempts => CanSchedule(reconnectTimers)
  /\ sockets' = Collect([ sockets EXCEPT ![s] = "CLOSED" ], ws)
  /\ isConnected' = FALSE
  /\ handleReconnect(reconnectTimers, "disconnected")
  /\ UNCHANGED <<ws, requested>>
  /\ UNCHANGED <<composerVars, feedVars>>

\* ws.onerror of socket s.
onerror(s) ==
  /\ sockets[s] \in {"CONNECTING", "OPEN"}
  /\ emitted' = "error"
  /\ UNCHANGED <<ws, sockets, reconnectAttempts, isConnected,
                 reconnectTimers, attemptsSinceOpen, requested>>
  /\ UNCHANGED <<composerVars, feedVars>>

\* The service used by its owner over a network that opens, fails and
\* drops connections.
NextSocket ==
  \/ connect
  \/ disconnect
  \/ reconnectTimer
  \/ \E s \in 1..MaxSockets : onopen(s)
  \/ \E s \in 1..MaxSockets : onclose(s)
  \/ \E s \in 1..MaxSockets : onerror(s)

SpecSocket == Init /\ [][NextSocket]_vars

(* -------------------------------- Feed -------------------------------- *)

\* The forms of the next link of a feed response: absolute says whether
\* new URL(next) accepts the string (it throws on a relative reference),
\* query lists the pairs of its query string in order.
NextUrls ==
  { [ absolute |-> TRUE,  query |-> << <<"cursor", "c1">> >> ],
    [ absolute |-> TRUE,  query |-> << <<"page", "2">>, <<"cursor", "c2">> >> ],
    [ absolute |-> TRUE,  query |-> << <<"page", "2">> >> ],
    [ absolute |-> TRUE,  query |-> << <<"cursor", "">> >> ],
    [ absolute |-> FALSE, query |-> << <<"cursor", "c1">> >> ] }

\* response.data.next: null, or <<u>> for a link u.
NextLinks == { Null } \cup { <<u>> : u \in NextUrls }

\* URLSearchParams.get(key): <<v>> for the value v of the first pair with
\* the key, null when there is none.
searchParams_get(query, key) ==
  LET hits == { i \in 1..Len(query) : query[i][1] = key }
  IN IF hits = {} THEN Null
     ELSE << query[CHOOSE i \in hits : \A j \in hits : i <= j][2] >>

\* if (cursor): neither null nor the empty string.
Truthy(cursor) == cursor # Null /\ cursor[1] # ""

\* handleRefresh(): pull to refresh.
handleRefresh ==
  /\ Len(fetches) < MaxFetches
  /\ refreshing' = TRUE
  /\ fetches' = Append(fetches, Fetch(TRUE, Null))
  /\ UNCHANGED <<nextUrl, loadingMore, loading>>
  /\ UNCHANGED <<composerVars, wsVars>>

\* handleLoadMore(): the list has been scrolled to its end.
handleLoadMore ==
  /\ IF nextUrl # Null /\ ~loadingMore
     THEN /\ loadingMore' = TRUE
          /\ IF ~nextUrl[1].absolute
             THEN UNCHANGED fetches
             ELSE LET cursor == searchParams_get(nextUrl[1].query, "cursor")
                  IN IF Truthy(cursor)
                     THEN /\ Len(fetches) < MaxFetches
                          /\ fetches' = Append(fetches, Fetch(FALSE, cursor))
                     ELSE UNCHANGED fetches
     ELSE UNCHANGED <<loadingMore, fetches>>
  /\ UNCHANGED <<nextUrl, loading, refreshing>>
  /\ UNCHANGED <<composerVars, wsVars>>

\* The fetches without the i-th.
Settled(i) == [ j \in 1..(Len(fetches) - 1) |->
                 IF j < i THEN fetches[j] ELSE fetches[j + 1] ]

\* The finally block of fetchFeed.
fetchFinally ==
  /\ loading' = FALSE
  /\ refreshing' = FALSE
  /\ loadingMore' = FALSE

\* The i-th request is answered, with next as the link of its response.
fetchResolved(i, next) ==
  /\ i \in 1..Len(fetches)
  /\ fetches' = Settled(i)
  /\ nextUrl' = next
  /\ fetchFinally
  /\ UNCHANGED <<composerVars, wsVars>>

\* The i-th request fails or times out.
fetchRejected(i) ==
  /\ i \in 1..Len(fetches)
  /\ fetches' = Settled(i)
  /\ fetchFinally
  /\ UNCHANGED nextUrl
  /\ UNCHANGED <<composerVars, wsVars>>

\* A request settles, one way or the other.
fetchSettled ==
  \E i \in 1..MaxFetches :
    \/ \E next \in NextLinks : fetchResolved(i, next)
    \/ fetchRejected(i)

NextFeed ==
  \/ handleRefresh
  \/ handleLoadMore
  \/ \E i \in 1..MaxFetches, next \in NextLinks : fetchResolved(i, next)
  \/ \E i \in 1..MaxFetches : fetchRejected(i)

\* The feed, scrolled and refreshed by its user.
SpecFeed == Init /\ [][NextFeed]_vars

\* Every request settles: the api client gives up after its timeout.
SpecFeedFair == SpecFeed /\ WF_vars(fetchSettled)

(* ====================================================================== *)
(* Properties                                                             *)
(* ====================================================================== *)

InStore(els, id) == FindIndex(els, id) # 0

\* The first element of els that has the id.
El(els, id) == els[FindIndex(els, id)]

\* The draft of element id: its buffer entry, or its committed content.
Draft(id) ==
  IF id \in DOMAIN localTextContent
  THEN localTextContent[id]
  ELSE El(textElements, id).content

\* Empty after trimming: nothing but whitespace.
IsBlank(s) == \A i \in 1..Len(s) : s[i] \in Whitespace

\* Within 100 units of a canvas edge.
WithinMargin(px, py) ==
  \/ px < 100
  \/ px > screenWidth - 100
  \/ py < 100
  \/ py > screenHeight - 100

\* Editing(id): the edit mode is on and its target is in the store.
Editing(id) == isEditingText /\ selectedTextId = id /\ InStore(textElements, id)

CanvasTap == \E p \in WideTapPoints : handleCanvasTap(p)

\* A step that enters Editing(id) from Viewing or from another target.
EnterStep ==
  /\ isEditingText'
  /\ ~isEditingText \/ selectedTextId' # selectedTextId

(* ------------------------------- C1 ----------------------------------- *)
\* C1: a canvas tap that exits Editing(id) with a draft that is empty after
\* trimming removes element id from the store, clears selectedTextId, leaves
\* no buffer entry for id and leaves isEditingText false.
C1_BlankExitDeletes ==
  [][ \A id \in ElementIds :
        (CanvasTap /\ Editing(id) /\ IsBlank(Draft(id)))
        => /\ ~InStore(textElements', id)
           /\ selectedTextId' = ""
           /\ id \notin DOMAIN localTextContent'
           /\ ~isEditingText' ]_vars

\* The starter element was edited, left blank and removed by the exit tap.
C1_Witness ==
  /\ ~isEditingText
  /\ selectedTextId = ""
  /\ textElements = <<>>

(* ------------------------------- C2 ----------------------------------- *)
\* C2: a canvas tap that exits Editing(id) with a draft that is not blank
\* after trimming keeps element id in the store with content equal to the
\* draft and fontSize equal to currentFontSize, and leaves isEditingText
\* false and the buffer empty.
C2_NonBlankExitCommits ==
  [][ \A id \in ElementIds :
        (CanvasTap /\ Editing(id) /\ ~IsBlank(Draft(id)))
        => /\ InStore(textElements', id)
           /\ El(textElements', id).content = Draft(id)
           /\ El(textElements', id).fontSize = currentFontSize
           /\ ~isEditingText'
           /\ localTextContent' = EmptyMap ]_vars

\* A created element holds committed text and a font size set on the slider.
C2_Witness ==
  /\ ~isEditingText
  /\ localTextContent = EmptyMap
  /\ \E i \in 1..Len(textElements) :
       /\ textElements[i].id # "1"
       /\ textElements[i].content = <<"h", "i">>
       /\ textElements[i].fontSize = minFontSize

(* ------------------------------- C3 ----------------------------------- *)
\* C3: typing into the edited element changes only the buffer entry of that
\* element: the store, the selection and the edit mode are unchanged, the
\* other buffer entries are unchanged, the element displays the typed text
\* and every element without a buffer entry displays its committed content.
C3_TypingOnlyTouchesBuffer ==
  [][ \A text \in Texts :
        handleTextInputChange(selectedTextId, text)
        => /\ textElements' = textElements
           /\ selectedTextId' = selectedTextId
           /\ isEditingText' = isEditingText
           /\ DOMAIN localTextContent' = DOMAIN localTextContent \cup {selectedTextId}
           /\ \A k \in DOMAIN localTextContent \ {selectedTextId} :
                localTextContent'[k] = localTextContent[k]
           /\ getDisplayText(El(textElements, selectedTextId))' = text
           /\ \A i \in 1..Len(textElements) :
                textElements[i].id \notin DOMAIN localTextContent'
                => getDisplayText(textElements[i])' = textElements[i].content ]_vars

\* The edited element displays typed text that its committed content lacks.
C3_Witness ==
  /\ isEditingText
  /\ InStore(textElements, selectedTextId)
  /\ selectedTextId \in DOMAIN localTextContent
  /\ localTextContent[selectedTextId] = <<"h", "i">>
  /\ El(textElements, selectedTextId).content = <<>>

(* ------------------------------- C4 ----------------------------------- *)
\* C4: a canvas tap received while isEditingText is true ends in Viewing:
\* in that tap no element is created, no element is newly selected and no
\* Editing state is entered.
C4_TapWhileEditingExits ==
  [][ (CanvasTap /\ isEditingText)
      => /\ ~isEditingText'
         /\ Len(textElements') <= Len(textElements)
         /\ \A i \in 1..Len(textElements') :
              textElements'[i].id \in ElementIds
         /\ selectedTextId' \in {selectedTextId, ""} ]_vars

\* Viewing, reached by a tap that committed the edited starter element.
C4_Witness ==
  /\ ~isEditingText
  /\ selectedTextId = "1"
  /\ InStore(textElements, "1")
  /\ El(textElements, "1").content = <<"h", "i">>

(* ------------------------------- C5 ----------------------------------- *)
\* C5: no step leads from Editing(id) directly to Editing(id2) with id2
\* different from id: when isEditingText is true before and after a step,
\* selectedTextId is unchanged.
C5_NoDirectRetarget ==
  [][ (isEditingText /\ isEditingText') => selectedTextId' = selectedTextId ]_vars

(* ------------------------------- C6 ----------------------------------- *)
\* C6: the buffer holds an entry for an id only if isEditingText is true and
\* the id is selectedTextId.
C6_BufferOnlyForEdited ==
  \A id \in DOMAIN localTextContent : isEditingText /\ id = selectedTextId

(* ------------------------------- C7 ----------------------------------- *)
\* C7: right after every transition into Editing(id) the buffer holds an
\* entry for id that equals the committed content of element id.
C7_EntrySeedsBuffer ==
  [][ EnterStep
      => /\ selectedTextId' \in DOMAIN localTextContent'
         /\ InStore(textElements', selectedTextId')
         /\ localTextContent'[selectedTextId'] =
              El(textElements', selectedTextId').content ]_vars

(* ------------------------------- C8 ----------------------------------- *)
\* C8: on every transition into Editing(id), an element whose position is
\* within the margin of a canvas edge (the position it had, or the tapped
\* point at which it is created) is at the default anchor afterwards.
C8_EntryRelocates ==
  [][ EnterStep
      => LET id == selectedTextId' IN
           /\ InStore(textElements', id)
           /\ IF InStore(textElements, id)
              THEN WithinMargin(El(textElements, id).x, El(textElements, id).y)
                   => /\ El(textElements', id).x = anchorX
                      /\ El(textElements', id).y = anchorY
              ELSE ~WithinMargin(El(textElements', id).x,
                                 El(textElements', id).y) ]_vars

(* ------------------------------- C9 ----------------------------------- *)
\* C9: entering Editing(id) on an element that is safely inside the margin
\* leaves its position unchanged, and the originalPosition recorded for it
\* is null or equal to that position.
C9_EntryInsideKeepsPosition ==
  [][ \A id \in ElementIds :
        ( /\ EnterStep
          /\ selectedTextId' = id
          /\ ~WithinMargin(El(textElements, id).x, El(textElements, id).y) )
        => /\ InStore(textElements', id)
           /\ El(textElements', id).x = El(textElements, id).x
           /\ El(textElements', id).y = El(textElements, id).y
           /\ El(textElements', id).originalX \in {Null, <<El(textElements, id).x>>}
           /\ El(textElements', id).originalY \in {Null, <<El(textElements, id).y>>} ]_vars

\* An element away from the anchor and inside the margin is being edited
\* where it was, with that position recorded.
C9_Witness ==
  /\ isEditingText
  /\ InStore(textElements, selectedTextId)
  /\ LET el == El(textElements, selectedTextId) IN
       /\ ~WithinMargin(el.x, el.y)
       /\ el.y # anchorY
       /\ el.originalX = <<el.x>>
       /\ el.originalY = <<el.y>>

(* ------------------------------- C10 ---------------------------------- *)
\* C10: exiting Editing changes the position and the recorded
\* originalPosition of no element that remains in the store, and no step
\* writes originalPosition back: a position changes only by the relocation
\* to the anchor when editing starts or by a pan frame (snapshot plus
\* translation).
C10_ExitKeepsPosition ==
  [][ /\ (CanvasTap /\ isEditingText)
         => \A i \in 1..Len(textElements') :
              \E j \in 1..Len(textElements) :
                /\ textElements[j].id = textElements'[i].id
                /\ textElements[j].x = textElements'[i].x
                /\ textElements[j].y = textElements'[i].y
                /\ textElements[j].originalX = textElements'[i].originalX
                /\ textElements[j].originalY = textElements'[i].originalY
      /\ \A i \in 1..Len(textElements') :
           LET new == textElements'[i] IN
             \* an element of the store, where it was
             \/ \E j \in 1..Len(textElements) :
                  /\ textElements[j].id = new.id
                  /\ textElements[j].x = new.x
                  /\ textElements[j].y = new.y
             \* an element of the store, moved to the anchor for editing
             \/ \E j \in 1..Len(textElements) :
                  /\ textElements[j].id = new.id
                  /\ isEditingText'
                  /\ WithinMargin(textElements[j].x, textElements[j].y)
                  /\ new.x = anchorX
                  /\ new.y = anchorY
             \* an element of the store, dragged
             \/ /\ ~isEditingText
                /\ new.id \in ElementIds
                /\ new.id \in DOMAIN dragStart
                /\ \E t \in Translations :
                     /\ new.x = dragStart[new.id][1] + t[1]
                     /\ new.y = dragStart[new.id][2] + t[2]
             \* the element created by this step
             \/ /\ Len(textElements') = Len(textElements) + 1
                /\ i = Len(textElements')
                /\ new.originalX = Null
                /\ new.originalY = Null ]_vars

\* Viewing, with an element that was moved to the anchor for editing still
\* there while its recorded original position differs.
C10_Witness ==
  /\ ~isEditingText
  /\ \E i \in 1..Len(textElements) :
       /\ textElements[i].x = anchorX
       /\ textElements[i].y = anchorY
       /\ textElements[i].originalX # Null
       /\ textElements[i].originalX # <<anchorX>>

(* ------------------------------- C11 ---------------------------------- *)
\* C11: in every reachable state the scale of every element lies between
\* 0.3 and 5.0, whatever pinch frames were delivered.
C11_ScaleInRange ==
  \A i \in 1..Len(textElements) :
    /\ 10 * textElements[i].scale >= 3 * ScaleOne
    /\ textElements[i].scale <= 5 * ScaleOne

\* One element was pinched down to the lower end of the range and another
\* was spread up to the upper end.
C11_Witness ==
  /\ \E i \in 1..Len(textElements) : 10 * textElements[i].scale = 3 * ScaleOne
  /\ \E i \in 1..Len(textElements) : textElements[i].scale = 5 * ScaleOne

C13_NoGestureWhileEditing ==
  [][ ( /\ isEditingText
        /\ \E state \in PanStates, id \in ElementIds :
             \/ \E t \in Translations : handlePanGesture(state, t, id)
             \/ \E scale \in PinchScales : handlePinchGesture(state, scale, id) )
      => /\ Len(textElements') = Len(textElements)
         /\ \A i \in 1..Len(textElements) :
              /\ textElements'[i].x = textElements[i].x
              /\ textElements'[i].y = textElements[i].y
              /\ textElements'[i].scale = textElements[i].scale ]_vars

\* Editing, with a drag begun on an element that was pinched before: the
\* frames of both recognizers find their element and, for the pan, its
\* snapshot.
C13_Witness ==
  /\ isEditingText
  /\ \E i \in 1..Len(textElements) :
       /\ textElements[i].id \in DOMAIN dragStart
       /\ textElements[i].scale # ScaleOne

(* ------------------------------- C14 ---------------------------------- *)
\* C14: a long press (deleteTextElement) on the element of a store that
\* holds exactly one element changes nothing: the store still holds that
\* element, and the selection and the edit mode are as before.
C14_LastElementStays ==
  [][ \A i \in 1..MaxElements :
        (onLongPress(i) /\ Len(textElements) = 1)
        => /\ textElements' = textElements
           /\ selectedTextId' = selectedTextId
           /\ isEditingText' = isEditingText ]_vars

\* Viewing with a single element that is not the starter element: the
\* starter was deleted while there were two, and the one that is left can
\* be long-pressed.
C14_Witness ==
  /\ ~isEditingText
  /\ Len(textElements) = 1
  /\ textElements[1].id # "1"

(* ------------------------------- C15 ---------------------------------- *)
\* C15: a canvas tap that exits Editing(id) with a draft that is empty
\* after trimming, taken when element id is the only element of the store,
\* leaves at least one element in the store.
C15_BlankExitKeepsLast ==
  [][ \A id \in ElementIds :
        ( /\ CanvasTap
          /\ Editing(id)
          /\ IsBlank(Draft(id))
          /\ Len(textElements) = 1 )
        => Len(textElements') >= 1 ]_vars

(* ------------------------------- C16 ---------------------------------- *)
\* C16: in every reachable state no two elements of the store have the
\* same id.
C16_UniqueIds ==
  \A i, j \in 1..Len(textElements) :
    textElements[i].id = textElements[j].id => i = j

(* ------------------------------- C17 ---------------------------------- *)
\* C17: a canvas tap at p in Viewing starts editing the first element, in
\* the order of the store, whose hit box (as findElementAtPosition tests
\* it) contains p, and the store gains no element; when no hit box
\* contains p, one element with empty content is appended at the end of
\* the store at position p, and it is selected and edited.
C17_TapHitsFirstOrCreates ==
  [][ \A p \in WideTapPoints :
        (handleCanvasTap(p) /\ ~isEditingText)
        => LET hit == { i \in 1..Len(textElements) :
                          HitBox(textElements[i], p[1], p[2]) }
           IN /\ isEditingText'
              /\ \A i \in 1..Len(textElements) :
                   /\ i <= Len(textElements')
                   /\ textElements'[i].id = textElements[i].id
              /\ IF hit # {}
                 THEN /\ Len(textElements') = Len(textElements)
                      /\ \E i \in hit :
                           /\ \A j \in hit : i <= j
                           /\ selectedTextId' = textElements[i].id
                 ELSE /\ Len(textElements') = Len(textElements) + 1
                      /\ LET new == textElements'[Len(textElements')] IN
                           /\ new.content = <<>>
                           /\ new.x = p[1]
                           /\ new.y = p[2]
                           /\ selectedTextId' = new.id ]_vars

\* The starter element is being edited while a later element lies on the
\* same spot: a tap there hits both and takes the starter.
C17_Witness ==
  /\ isEditingText
  /\ selectedTextId = "1"
  /\ Len(textElements) = 2
  /\ textElements[1].id = "1"
  /\ textElements[2].id # "1"
  /\ HitBox(textElements[2], textElements[1].x, textElements[1].y)

(* ------------------------------- C18 ---------------------------------- *)
\* Points around the starter element's position: on it, 180 to its right,
\* 120 to its left, 50 below it, 35 above it, and far from it.
HitProbes ==
  { <<200, 240>>, <<380, 240>>, <<80, 240>>, <<200, 290>>, <<200, 205>>,
    <<50, 50>> }

\* The distance between two coordinates.
Dist(a, b) == IF a >= b THEN a - b ELSE b - a

\* C18: the hit box of an element is centred on its position and measures
\* 300 by 80 for the starter element and 200 by 50 for every other element:
\* findElementAtPosition's test accepts a point exactly when the point is
\* within half the width and within half the height of the position.
C18_HitBoxCentred ==
  \A i \in 1..Len(textElements), p \in HitProbes :
    LET el == textElements[i]
        width == IF el.id = "1" THEN 300 ELSE 200
        height == IF el.id = "1" THEN 80 ELSE 50
    IN HitBox(el, p[1], p[2])
         <=> /\ 2 * Dist(p[1], el.x) <= width
             /\ 2 * Dist(p[2], el.y) <= height

(* ------------------------------- C19 ---------------------------------- *)
\* C19: a canvas tap that exits Editing(id) leaves the fontSize of every
\* element other than element id as it was.
C19_ExitKeepsOtherFontSizes ==
  [][ \A id \in ElementIds :
        (CanvasTap /\ Editing(id))
        => LET before == FilterOut(textElements, id)
               after == FilterOut(textElements', id)
           IN /\ Len(after) = Len(before)
              /\ \A k \in 1..Len(before) :
                   /\ after[k].id = before[k].id
                   /\ after[k].fontSize = before[k].fontSize ]_vars

C21_EmptyContent ==
  [][ handlePost
      => IF \A i \in 1..Len(textElements) : IsBlank(textElements[i].content)
         THEN /\ alert' = EmptyContent
              /\ inFlight' = inFlight
         ELSE \/ Len(inFlight') = Len(inFlight) + 1 /\ alert' = alert
              \/ inFlight' = inFlight /\ alert' = TooLong ]_vars

\* The alert stands after a press on a store of two blank elements, one of
\* them holding a space.
C21_Witness ==
  /\ alert = EmptyContent
  /\ inFlight = <<>>
  /\ Len(textElements) = 2
  /\ textElements[1].content = <<>>
  /\ textElements[2].content = <<" ">>

(* ------------------------------- C22 ---------------------------------- *)
\* The elements that are not blank, in the order of the store.
NonBlank(els) == SelectSeq(els, LAMBDA el : ~IsBlank(el.content))

\* The number of characters of the contents of els written one after the
\* other with one space between two neighbours.
RECURSIVE JoinedLength(_)
JoinedLength(els) ==
  IF els = <<>> THEN 0
  ELSE IF Len(els) = 1 THEN Len(els[1].content)
  ELSE Len(els[1].content) + 1 + JoinedLength(Tail(els))

RECURSIVE JoinTrimmed(_)
JoinTrimmed(els) ==
  IF els = <<>> THEN <<>>
  ELSE IF Len(els) = 1 THEN Trim(els[1].content)
  ELSE Trim(els[1].content) \o <<" ">> \o JoinTrimmed(Tail(els))

\* C23: the text_content of a request that a press of Post sends is the
\* contents of the elements that are not blank, each trimmed, in the order
\* of the store and joined with single spaces.
C23_TrimmedAggregate ==
  [][ (handlePost /\ Len(inFlight') = Len(inFlight) + 1)
      => inFlight'[Len(inFlight')].text_content
           = JoinTrimmed(NonBlank(textElements)) ]_vars

(* ------------------------------- C24 ---------------------------------- *)
\* f is fontSize * scale rounded to the nearest integer, a half rounding
\* up (scale is held in units of 1 / ScaleOne).
IsRounded(f, el) ==
  /\ 2 * ScaleOne * f - ScaleOne <= 2 * el.fontSize * el.scale
  /\ 2 * el.fontSize * el.scale < 2 * ScaleOne * f + ScaleOne

\* C24: in a request that a press of Post sends, the record of every
\* element of the store carries round(fontSize * scale) as its fontSize
\* and has no scale field.
C24_ScaleBakedIn ==
  [][ (handlePost /\ Len(inFlight') = Len(inFlight) + 1)
      => LET sent == inFlight'[Len(inFlight')].text_elements
         IN  /\ Len(sent) = Len(textElements)
             /\ \A i \in 1..Len(sent) :
                  /\ IsRounded(sent[i].fontSize, textElements[i])
                  /\ "scale" \notin DOMAIN sent[i] ]_vars

\* A request is in flight for a store of an element of size 24 at scale 2
\* and one of size 10 at scale 0.3: it carries 48 and 3.
C24_Witness ==
  /\ inFlight # <<>>
  /\ Len(textElements) = 2
  /\ textElements[1].fontSize = 24 /\ textElements[1].scale = 2 * ScaleOne
  /\ textElements[2].fontSize = 10 /\ 10 * textElements[2].scale = 3 * ScaleOne
  /\ inFlight[1].text_elements[1].fontSize = 48
  /\ inFlight[1].text_elements[2].fontSize = 3

(* ------------------------------- C25 ---------------------------------- *)
\* C25: in a request that a press of Post sends, the record of every
\* element carries hasBackground = FALSE when the element's backgroundMode
\* is off and TRUE when it is white or inverted.
C25_BackgroundCollapses ==
  [][ (handlePost /\ Len(inFlight') = Len(inFlight) + 1)
      => LET sent == inFlight'[Len(inFlight')].text_elements
         IN  \A i \in 1..Len(sent) :
               sent[i].hasBackground
                 <=> (textElements[i].backgroundMode # "off") ]_vars

(* ------------------------------- C26 ---------------------------------- *)
\* C26: in a request that a press of Post sends, font_choice, font_size
\* and text_color are the fontFamily, round(fontSize * scale) and color of
\* the first element of the store, and text_elements has one record per
\* element of the store, blank ones included, in the order of the store.
C26_LegacyFromFirst ==
  [][ (handlePost /\ Len(inFlight') = Len(inFlight) + 1)
      => LET p == inFlight'[Len(inFlight')]
         IN  /\ p.font_choice = textElements[1].fontFamily
             /\ IsRounded(p.font_size, textElements[1])
             /\ p.text_color = textElements[1].color
             /\ Len(p.text_elements) = Len(textElements)
             /\ \A i \in 1..Len(textElements) :
                  /\ p.text_elements[i].content = textElements[i].content
                  /\ p.text_elements[i].x = textElements[i].x
                  /\ p.text_elements[i].y = textElements[i].y
                  /\ p.text_elements[i].color = textElements[i].color
                  /\ p.text_elements[i].fontFamily
                       = textElements[i].fontFamily ]_vars

\* A request is in flight for a store whose first element is blank and
\* differs in font, size and colour from the second, which holds the text:
\* the legacy fields are those of the blank first element, which is listed.
C26_Witness ==
  /\ inFlight # <<>>
  /\ Len(textElements) = 2
  /\ IsBlank(textElements[1].content)
  /\ textElements[1].fontFamily = "impact"
  /\ textElements[2].fontFamily = "arial-black"
  /\ textElements[1].color # textElements[2].color
  /\ inFlight[1].font_choice = "impact"
  /\ inFlight[1].font_size = 3
  /\ inFlight[1].text_color = textElements[1].color
  /\ Len(inFlight[1].text_elements) = 2
  /\ inFlight[1].text_elements[1].content = textElements[1].content

(* ------------------------------- C27 ---------------------------------- *)
\* C27: at most one creation request is in flight at any time.
C27_OneInFlight == Len(inFlight) <= 1

\* A request is in flight while the Post button is drawn over a
\* composition that a press would send: the button is disabled.
C27_Witness ==
  /\ Len(inFlight) = 1
  /\ isPosting
  /\ ~isEditingText
  /\ Trim(allText) # <<>>
  /\ Len(allText) <= maxLength

(* ------------------------------- C28 ---------------------------------- *)
\* C28: a press of Post on a composition that is blank or whose aggregate
\* text has more than 500 characters sends no request and leaves isPosting
\* false, as it was before the press.
C28_ValidationBeforeBusy ==
  [][ (handlePost /\ (\/ NonBlank(textElements) = <<>>
                     \/ JoinedLength(NonBlank(textElements)) > 500))
      => /\ inFlight' = inFlight
         /\ ~isPosting
         /\ ~isPosting'
         /\ alert' \in {EmptyContent, TooLong} ]_vars

\* The press was refused for length: the alert is up, nothing is in
\* flight and the button is not busy.
C28_Witness ==
  /\ alert = TooLong
  /\ JoinedLength(NonBlank(textElements)) > 500
  /\ inFlight = <<>>
  /\ ~isPosting

(* ------------------------------- C29 ---------------------------------- *)
\* C29: when the request fails, isPosting becomes false, neither onPost
\* nor onClose is called or scheduled, the request is gone and no other is
\* sent in its place; the Post button is enabled again.
C29_FailureClearsBusy ==
  [][ postRejected
      => /\ isPosting
         /\ ~isPosting'
         /\ callbacks' = callbacks
         /\ timers' = timers
         /\ Len(inFlight') = Len(inFlight) - 1
         /\ inFlight' = <<>> ]_vars

\* After a failed request the user pressed Post again: the error alert of
\* the first request is still the last one shown, the second request is in
\* flight, and no callback has been called or scheduled.
C29_Witness ==
  /\ alert = NetworkError
  /\ Len(inFlight) = 1
  /\ isPosting
  /\ callbacks = <<>>
  /\ timers = 0

(* ------------------------------- C30 ---------------------------------- *)
\* C30: no step of a submission (the press with its validation, the
\* success branch, the failure branch, the delayed callback) changes the
\* element store, the selection, the edit mode, the Local Edit Buffer or
\* the canvas background.
C30_SubmissionKeepsComposition ==
  [][ PostStep
      => UNCHANGED <<textElements, selectedTextId, isEditingText,
                     localTextContent, currentBgIndex>> ]_vars

\* A submission has failed at the server: the text typed before it and
\* the canvas background chosen before it are still there.
C30_Witness ==
  /\ alert = NetworkError
  /\ inFlight = <<>>
  /\ ~isPosting
  /\ currentBgIndex # 0
  /\ \E i \in 1..Len(textElements) : textElements[i].content = <<"h", "i">>

(* ------------------------------- C31 ---------------------------------- *)
\* C31: a request that was sent ends either in success, where onPost is
\* called once and onClose after it (the calls are never partial and the
\* delayed callback that makes them does fire), or in failure, where
\* neither is called or scheduled and the store is kept; once a request
\* has succeeded the Post button stays disabled, so no further request is
\* sent.
C31_SuccessOrFailure ==
  /\ [](callbacks \in { <<>>, << "onPost", "onClose" >> })
  /\ []((timers > 0 \/ callbacks # <<>>)
          => /\ isPosting
             /\ inFlight = <<>>
             /\ (timers = 0 \/ callbacks = <<>>)
             /\ timers <= 1)
  /\ [][ postRejected
         => UNCHANGED <<callbacks, timers, textElements, selectedTextId,
                        isEditingText, localTextContent>> ]_vars
  /\ [][ handlePost => (timers = 0 /\ callbacks = <<>>) ]_vars
  /\ (timers > 0 ~> callbacks = << "onPost", "onClose" >>)

\* A submission has succeeded: onPost and then onClose were called, no
\* timer is left and the Post button is still disabled.
C31_Witness ==
  /\ callbacks = << "onPost", "onClose" >>
  /\ timers = 0
  /\ inFlight = <<>>
  /\ isPosting

(* ------------------------------- C32 ---------------------------------- *)
\* The starter element A as the composer creates it.
StarterA == NewElement("1", anchorX, anchorY)

\* The composition as constructed: A alone, Viewing, nothing buffered.
Scenario0 ==
  /\ textElements = << StarterA >>
  /\ selectedTextId = "1"
  /\ ~isEditingText
  /\ currentFontSize = defaultFontSize
  /\ localTextContent = EmptyMap

\* A and a second element B at (50,50), B being edited.
ScenarioEditingB ==
  /\ Len(textElements) = 2
  /\ textElements[1] = StarterA
  /\ textElements[2].id # "1"
  /\ textElements[2].x = 50 /\ textElements[2].y = 50
  /\ textElements[2].content = <<>>
  /\ isEditingText
  /\ selectedTextId = textElements[2].id

\* After the tap at (50,50): B is edited and nothing of A is buffered.
Scenario1 ==
  /\ ScenarioEditingB
  /\ DOMAIN localTextContent \subseteq { textElements[2].id }
  /\ Draft(textElements[2].id) = <<>>

\* After typing: the draft of B is "hi".
Scenario2 ==
  /\ ScenarioEditingB
  /\ DOMAIN localTextContent = { textElements[2].id }
  /\ localTextContent[textElements[2].id] = << "h", "i" >>

\* After the second tap: Viewing, A as it was, B holding "hi".
Scenario3 ==
  /\ ~isEditingText
  /\ Len(textElements) = 2
  /\ textElements[1] = StarterA
  /\ textElements[2].id # "1"
  /\ textElements[2].content = << "h", "i" >>
  /\ localTextContent = EmptyMap

\* C32: from the composition as constructed, a tap at (50,50) creates B
\* and edits it, typing "hi" puts "hi" in B's draft, a canvas tap then
\* leaves Viewing with A unchanged and B holding "hi", and a press of Post
\* then raises no alert and sends the aggregate text "hi".
C32_EndToEnd ==
  /\ [][ (Scenario0 /\ handleCanvasTap(<< 50, 50 >>)) => Scenario1' ]_vars
  /\ [][ (Scenario1 /\ handleTextInputChange(selectedTextId, << "h", "i" >>))
         => Scenario2' ]_vars
  /\ [][ (Scenario2 /\ \E p \in TapPoints : handleCanvasTap(p))
         => Scenario3' ]_vars
  /\ [][ (Scenario3 /\ handlePost)
         => /\ alert' = alert
            /\ Len(inFlight') = Len(inFlight) + 1
            /\ inFlight'[Len(inFlight')].text_content = << "h", "i" >>
            /\ Scenario3' ]_vars

\* The scenario has run to its end: the request with the text "hi" is in
\* flight, no alert was raised, and the store holds A and B.
C32_Witness ==
  /\ Scenario3
  /\ textElements[2].x = 50 /\ textElements[2].y = 50
  /\ alert = ""
  /\ Len(inFlight) = 1
  /\ inFlight[1].text_content = << "h", "i" >>
  /\ Len(inFlight[1].text_elements) = 2

(* ------------------------------- C33 ---------------------------------- *)
\* new is min(5.0, max(0.3, s * f)), scales and factor in units of
\* 1 / ScaleOne.
IsClampedProduct(new, s, f) ==
  IF 10 * s * f < 3 * ScaleOne * ScaleOne THEN 10 * new = 3 * ScaleOne
  ELSE IF s * f > 5 * ScaleOne * ScaleOne THEN new = 5 * ScaleOne
  ELSE new * ScaleOne = s * f

\* C33: an ACTIVE pinch frame with factor f delivered in Viewing by the
\* recognizer of an element sets that element's scale to
\* min(5.0, max(0.3, s * f)), s being its scale before the frame, and
\* changes nothing else of it and no other element.
C33_PinchCompounds ==
  [][ \A i \in 1..Len(textElements) : \A f \in PinchScales :
        (handlePinchGesture("ACTIVE", f, textElements[i].id) /\ ~isEditingText)
        => /\ Len(textElements') = Len(textElements)
           /\ IsClampedProduct(textElements'[i].scale,
                               textElements[i].scale, f)
           /\ textElements'[i]
                = [ textElements[i] EXCEPT !.scale = textElements'[i].scale ]
           /\ \A j \in 1..Len(textElements) :
                j # i => textElements'[j] = textElements[j] ]_vars

(* ------------------------------- C34 ---------------------------------- *)
\* C34: right after every transition into Editing(id), by a tap on an
\* existing element or by the creation of a new one, currentFontSize is
\* the committed fontSize of element id.
C34_EntrySetsFontSize ==
  [][ EnterStep
      => /\ InStore(textElements', selectedTextId')
         /\ currentFontSize' = El(textElements', selectedTextId').fontSize
    ]_vars

Without(els, i) ==
  [ k \in 1..(Len(els) - 1) |-> IF k < i THEN els[k] ELSE els[k + 1] ]

\* C36: a long press (deleteTextElement) on an element of a store that
\* holds more than one element removes that element and nothing else, the
\* others staying as they are and in their order; the selection moves to
\* the first remaining element when the removed element was the selected
\* one and stays as it is otherwise.
C36_DeleteRemovesOne ==
  [][ \A i \in 1..Len(textElements) :
        (onLongPress(i) /\ Len(textElements) > 1)
        => LET rest == Without(textElements, i) IN
             /\ textElements' = rest
             /\ selectedTextId' =
                  IF selectedTextId = textElements[i].id
                  THEN rest[1].id
                  ELSE selectedTextId ]_vars

(* ------------------------------- C37 ---------------------------------- *)
\* C37: selectedTextId is empty or the id of an element of the store, and
\* while isEditingText is true it is the id of an element of the store.
C37_SelectionInStore ==
  /\ selectedTextId = "" \/ \E i \in 1..Len(textElements) :
                               textElements[i].id = selectedTextId
  /\ isEditingText => \E i \in 1..Len(textElements) :
                         textElements[i].id = selectedTextId

\* An element was deleted by a long press while another was being edited:
\* the edit goes on, on the element that is left.
C37_Witness ==
  /\ isEditingText
  /\ Len(textElements) = 1
  /\ textElements[1].id # "1"
  /\ selectedTextId = textElements[1].id
  /\ selectedTextId \in DOMAIN localTextContent

(* ------------------------------- C38 ---------------------------------- *)
\* C38: the service never schedules more than maxReconnectAttempts (5)
\* reconnects without a successful open in between: reconnectAttempts
\* stays within 0..5, onopen resets it to 0, and a close that finds it at 5
\* emits 'max_reconnects_reached' and schedules no reconnect.
C38_ReconnectsBounded ==
  /\ [](reconnectAttempts \in 0..5)
  /\ [](attemptsSinceOpen <= 5)
  /\ [][ \A s \in 1..MaxSockets : onopen(s) => reconnectAttempts' = 0 ]_vars
  /\ [][ \A s \in 1..MaxSockets :
           (onclose(s) /\ reconnectAttempts = 5)
           => /\ emitted' = "max_reconnects_reached"
              /\ reconnectTimers' = reconnectTimers
              /\ reconnectAttempts' = 5 ]_vars

(* ------------------------------- C39 ---------------------------------- *)
\* C39: from a call of disconnect() until the user of the service calls
\* connect() again, isConnected is false and no new socket is opened,
\* neither by the close event of the socket that disconnect() closed nor
\* by a reconnect timer scheduled earlier.
C39_StaysDisconnected ==
  /\ [](~requested => ~isConnected)
  /\ [][ (~requested /\ ~connect)
         => \A s \in 1..MaxSockets :
              sockets'[s] = "CONNECTING" => sockets[s] = "CONNECTING" ]_vars

(* ------------------------------- C40 ---------------------------------- *)
\* C40: whenever loadingMore is true it eventually returns to false,
\* whatever the form of nextUrl and however the page request ends, and no
\* page request is started while loadingMore is true.
C40_LoadMoreSettles ==
  /\ loadingMore ~> ~loadingMore
  /\ [][ loadingMore
         => ~ \E u \in NextUrls :
                fetches' = Append(fetches,
                  Fetch(FALSE, searchParams_get(u.query, "cursor"))) ]_vars
====
